---- MODULE Spec2Model ----
(***************************************************************************)
(* Model of generate_doc.py: the documentation pipeline                    *)
(* generate_functional_doc and the helpers it calls, run any number of     *)
(* times against one output directory.                                     *)
(*                                                                         *)
(* A text is a sequence of characters over {" ", "x"}; " " stands for any  *)
(* whitespace character and "x" for any other character.  A file path is   *)
(* the position of the file in the walk of the extracted tree; its base    *)
(* name is the pair (stem, ext) of the entry at that position.             *)
(***************************************************************************)
EXTENDS Integers, Sequences, FiniteSets, TLC

\* ------------------------------------------------------------- bounds
\* Largest tree whose entries are all drawn freely.
MaxSmallTree == 2
\* Largest number of entries a large tree holds beyond the cap.
MaxOver == 2

\* ------------------------------------------------- program constants
\* files[:50] in both loops over the discovered files.
FileCap == 50

CodeExts ==
    {".py", ".js", ".jsx", ".ts", ".tsx", ".java", ".cs", ".cpp", ".c", ".go",
     ".rb", ".php", ".swift", ".kt", ".scala", ".rs", ".dart"}

\* ------------------------------------------------------ pure helpers
Whitespace == {" "}

RECURSIVE LStrip(_)
LStrip(s) ==
    IF s = <<>> THEN s
    ELSE IF Head(s) \in Whitespace THEN LStrip(Tail(s)) ELSE s

RECURSIVE RStrip(_)
RStrip(s) ==
    IF s = <<>> THEN s
    ELSE IF s[Len(s)] \in Whitespace THEN RStrip(SubSeq(s, 1, Len(s) - 1)) ELSE s

\* str.strip()
Strip(s) == RStrip(LStrip(s))

\* The mutant of IsBlank: only the empty string counts as blank.
IsBlankOnlyEmpty(content) == content = <<>>

\* `not content.strip()`
IsBlank(content) == Strip(content) = <<>>

Min(a, b) == IF a <= b THEN a ELSE b

\* The mutant of FirstN: the slice keeps everything.
FirstNAll(s, n) == s

\* The slice s[:n]
FirstN(s, n) == SubSeq(s, 1, Min(Len(s), n))

\* any(f.endswith(ext) for ext in code_exts)
IsCodeName(entry) == entry.ext \in CodeExts

RECURSIVE WalkFrom(_, _)
WalkFrom(t, i) ==
    IF i > Len(t) THEN <<>>
    ELSE IF IsCodeName(t[i]) THEN <<i>> \o WalkFrom(t, i + 1)
    ELSE WalkFrom(t, i + 1)

\* collect_code_files: the paths of the code files, in walk order.
CollectCodeFiles(t) == WalkFrom(t, 1)

\* The mutant of CorpusIsEmpty: the check never fires.
CorpusIsEmptyNever(ts) == FALSE

\* `if not texts`
CorpusIsEmpty(ts) == ts = <<>>

NoFile == [present |-> FALSE]

\* The mutant of EmptyDir: the directory is kept as it was.
EmptyDirKeep(dir) == dir

\* shutil.rmtree(output_dir) followed by os.makedirs(output_dir)
EmptyDir(dir) == [name \in DOMAIN dir |-> NoFile]

\* ------------------------------------------------------------ inputs
\* The entries a tree is drawn from: a source file with text, a second one
\* of another base name, a source file of whitespace only, an empty source
\* file, and a file that is no source file.
Filler == [stem |-> "a", ext |-> ".py", content |-> <<"x", " ">>]
Entries ==
    {Filler,
     [stem |-> "b", ext |-> ".js", content |-> <<" ", "x">>],
     [stem |-> "a", ext |-> ".py", content |-> <<" ">>],
     [stem |-> "b", ext |-> ".py", content |-> <<>>],
     [stem |-> "a", ext |-> ".md", content |-> <<"x", " ">>]}
\* What the generative model may answer.
AllReplies == {<<"n">>, <<" ", "m">>}

SmallTrees == UNION {[1..n -> Entries] : n \in 0..MaxSmallTree}
\* A large tree: one freely drawn entry, then source files with text.
LargeTrees ==
    UNION {{[i \in 1..n |-> IF i = 1 THEN e ELSE Filler] : e \in Entries} :
           n \in (FileCap - 1)..(FileCap + MaxOver)}

CodePositions(t) == {i \in 1..Len(t) : IsCodeName(t[i])}

\* At most one file of a tree has reads that may fail.
FlakySets(positions) == {{}} \cup {{i} : i \in positions}

\* A run's surroundings: the tree the archive unpacks to, the files whose
\* reads may fail, and the answers the generative model may give.
SmallEnvs ==
    UNION {[tree : {t}, flaky : FlakySets(CodePositions(t)), replies : {AllReplies}] :
           t \in SmallTrees}
LargeEnvs ==
    UNION {[tree : {t}, flaky : FlakySets(CodePositions(t) \cap {1}),
            replies : {{<<"n">>}}] :
           t \in LargeTrees}
Envs == SmallEnvs \cup LargeEnvs

\* ------------------------------------------------------------- state
VARIABLES
    pc,         \* position in generate_functional_doc
    err,        \* the exception that ended the run, "none" otherwise
    outdir,     \* output_dir: the two artifacts
    hadPrior,   \* whether output_dir held an artifact when the call began
    tree,       \* workdir/repo after extraction
    flaky,      \* paths whose read may raise
    replies,    \* answers the generative model may give in this run
    files,      \* files (line 134)
    li,         \* index of the list comprehension of line 135
    loaded,     \* what the comprehension's condition read, per file
    texts,      \* texts (line 135)
    index,      \* the texts the vector store was built from
    embedCalls, \* embedding calls issued
    retrievals, \* retrieval queries issued
    llmLog,     \* generative-model calls issued, in order
    overview,   \* overview (line 147)
    mi,         \* loop index of generate_file_by_file_doc
    mdRead,     \* what that loop read, per file
    mdSections, \* sections (line 109), without its heading
    di,         \* loop index of the docx loop (line 167)
    doc         \* the Document being built

vars ==
    <<pc, err, outdir, hadPrior, tree, flaky, replies, files, li, loaded, texts, index,
      embedCalls, retrievals, llmLog, overview, mi, mdRead, mdSections, di, doc>>

runVars ==
    <<tree, flaky, replies, files, li, loaded, texts, index, embedCalls,
      retrievals, llmLog, overview, mi, mdRead, mdSections, di, doc>>

NoText == <<"?">>

NoError == [type |-> "none", at |-> "none"]

Names == {"functional_doc.md", "functional_doc.docx"}

Init ==
    /\ pc = "idle"
    /\ err = NoError
    /\ outdir = [name \in Names |-> NoFile]
    /\ hadPrior = FALSE
    /\ tree = <<>>
    /\ flaky = {}
    /\ replies = {}
    /\ files = <<>>
    /\ li = 1
    /\ loaded = <<>>
    /\ texts = <<>>
    /\ index = <<>>
    /\ embedCalls = 0
    /\ retrievals = 0
    /\ llmLog = <<>>
    /\ overview = NoText
    /\ mi = 1
    /\ mdRead = <<>>
    /\ mdSections = <<>>
    /\ di = 1
    /\ doc = <<>>

\* os.path.basename(fp)
Basename(fp) == [stem |-> tree[fp].stem, ext |-> tree[fp].ext]

\* read_file: the content, or "" when the read raises.
ReadFile(fp) == {tree[fp].content} \cup (IF fp \in flaky THEN {<<>>} ELSE {})

\* An exception of type `e` leaves generate_functional_doc at step `at`.
Fail(e, at) ==
    /\ pc' = "failed"
    /\ err' = [type |-> e, at |-> at]

\* A call of generate_functional_doc; whatever the directory holds is from
\* an earlier run.
StartRun ==
    /\ pc \in {"idle", "done", "failed"}
    /\ pc' = "reset"
    /\ err' = NoError
    /\ outdir' = [name \in Names |->
                    IF outdir[name].present
                    THEN [outdir[name] EXCEPT !.fresh = FALSE]
                    ELSE NoFile]
    /\ hadPrior' = \E name \in Names : outdir[name].present
    /\ tree' = <<>>
    /\ flaky' = {}
    /\ replies' = {}
    /\ files' = <<>>
    /\ li' = 1
    /\ loaded' = <<>>
    /\ texts' = <<>>
    /\ index' = <<>>
    /\ embedCalls' = 0
    /\ retrievals' = 0
    /\ llmLog' = <<>>
    /\ overview' = NoText
    /\ mi' = 1
    /\ mdRead' = <<>>
    /\ mdSections' = <<>>
    /\ di' = 1
    /\ doc' = <<>>

\* Lines 122-124.
ResetOutputDir ==
    /\ pc = "reset"
    /\ outdir' = EmptyDir(outdir)
    /\ pc' = "unzip"
    /\ UNCHANGED <<err, hadPrior, runVars>>

\* Lines 122-124, rmtree or makedirs raising: any of the files may be left.
ResetOutputDirFail ==
    /\ pc = "reset"
    /\ \E kept \in SUBSET Names :
          outdir' = [name \in Names |-> IF name \in kept THEN outdir[name] ELSE NoFile]
    /\ Fail("OSError", "reset")
    /\ UNCHANGED <<hadPrior, runVars>>

\* Lines 126-127: the archive unpacks to a tree.
Unzip ==
    /\ pc = "unzip"
    /\ \E env \in Envs :
          /\ tree' = env.tree
          /\ flaky' = env.flaky
          /\ replies' = env.replies
    /\ pc' = "collect"
    /\ UNCHANGED <<err, outdir, hadPrior, files, li, loaded, texts, index, embedCalls,
                   retrievals, llmLog, overview, mi, mdRead, mdSections, di, doc>>

\* Lines 126-127 raising: not a zip file, or the tree cannot be written.
UnzipFail ==
    /\ pc = "unzip"
    /\ \E e \in {"BadZipFile", "OSError"} : Fail(e, "unzip")
    /\ UNCHANGED <<outdir, hadPrior, runVars>>

\* Lines 130-134: the clients are built and the code files collected.
Collect ==
    /\ pc = "collect"
    /\ files' = CollectCodeFiles(tree)
    /\ pc' = "load"
    /\ UNCHANGED <<err, outdir, hadPrior, tree, flaky, replies, li, loaded, texts, index,
                   embedCalls, retrievals, llmLog, overview, mi, mdRead,
                   mdSections, di, doc>>

\* Line 135, one file: read_file(f) in the condition, then read_file(f)
\* again for the element.
LoadText ==
    /\ pc = "load"
    /\ li <= Len(files)
    /\ \E first \in ReadFile(files[li]) :
          /\ loaded' = Append(loaded, first)
          /\ IF IsBlank(first)
             THEN texts' = texts
             ELSE \E second \in ReadFile(files[li]) : texts' = Append(texts, second)
    /\ li' = li + 1
    /\ UNCHANGED <<pc, err, outdir, hadPrior, tree, flaky, replies, files, index,
                   embedCalls, retrievals, llmLog, overview, mi, mdRead,
                   mdSections, di, doc>>

\* Lines 136-137.
CheckCorpus ==
    /\ pc = "load"
    /\ li > Len(files)
    /\ IF CorpusIsEmpty(texts)
       THEN Fail("ValueError", "check")
       ELSE pc' = "index" /\ err' = err
    /\ UNCHANGED <<outdir, hadPrior, runVars>>

\* Line 140: every text is embedded.
BuildIndex ==
    /\ pc = "index"
    /\ index' = texts
    /\ embedCalls' = embedCalls + Len(texts)
    /\ pc' = "overview"
    /\ UNCHANGED <<err, outdir, hadPrior, tree, flaky, replies, files, li, loaded, texts,
                   retrievals, llmLog, overview, mi, mdRead, mdSections, di, doc>>

\* Line 140 raising.
BuildIndexFail ==
    /\ pc = "index"
    /\ embedCalls' = embedCalls + 1
    /\ Fail("GenerationError", "index")
    /\ UNCHANGED <<outdir, hadPrior, tree, flaky, replies, files, li, loaded, texts, index,
                   retrievals, llmLog, overview, mi, mdRead, mdSections, di, doc>>

\* generate_overview: one retrieval, which embeds the query, then one call
\* of the generative model; either may raise.
GenerateOverview ==
    /\ pc = "overview"
    /\ retrievals' = retrievals + 1
    /\ embedCalls' = embedCalls + 1
    /\ \/ /\ Fail("GenerationError", "overview")
          /\ UNCHANGED <<llmLog, overview>>
       \/ /\ llmLog' = Append(llmLog, [kind |-> "overview", fp |-> 0, pass |-> "overview"])
          /\ \/ /\ \E ans \in replies : overview' = ans
                /\ pc' = "md"
                /\ err' = err
             \/ /\ overview' = overview
                /\ Fail("GenerationError", "overview")
    /\ UNCHANGED <<outdir, hadPrior, tree, flaky, replies, files, li, loaded, texts, index,
                   mi, mdRead, mdSections, di, doc>>

\* The mutant of MdFiles: blank files are dropped before the slice.
MdFilesSkipThenSlice ==
    FirstN(SelectSeq(CollectCodeFiles(tree), LAMBDA fp : ~IsBlank(tree[fp].content)),
           FileCap)

\* for fp in files[:50], in generate_file_by_file_doc.
MdFiles == FirstN(CollectCodeFiles(tree), FileCap)

\* for fp in collect_code_files(...)[:50], in generate_functional_doc.
DocxFiles == FirstN(CollectCodeFiles(tree), FileCap)

\* analyze_single_file: the section, for the answer `ans`.
Section(fp, ans) == [base |-> Basename(fp), note |-> Strip(ans), fp |-> fp]

\* Lines 110-114, one file.
AnalyzeMd ==
    /\ pc = "md"
    /\ mi <= Len(MdFiles)
    /\ LET fp == MdFiles[mi] IN
       \E content \in ReadFile(fp) :
          /\ mdRead' = Append(mdRead, content)
          /\ IF IsBlank(content)
             THEN /\ mi' = mi + 1
                  /\ UNCHANGED <<pc, err, llmLog, mdSections>>
             ELSE /\ llmLog' = Append(llmLog, [kind |-> "file", fp |-> fp, pass |-> "md"])
                  /\ \/ /\ \E ans \in replies :
                              mdSections' = Append(mdSections, Section(fp, ans))
                        /\ mi' = mi + 1
                        /\ UNCHANGED <<pc, err>>
                     \/ /\ Fail("GenerationError", "md")
                        /\ UNCHANGED <<mi, mdSections>>
    /\ UNCHANGED <<outdir, hadPrior, tree, flaky, replies, files, li, loaded, texts, index,
                   embedCalls, retrievals, overview, di, doc>>

\* md_content, as its parts.
MdContent == [overview |-> overview, sections |-> mdSections]

Written(content, whole) ==
    [present |-> TRUE, fresh |-> TRUE, complete |-> whole, content |-> content]

\* Lines 155-158.
WriteMd ==
    /\ pc = "md"
    /\ mi > Len(MdFiles)
    /\ outdir' = [outdir EXCEPT !["functional_doc.md"] = Written(MdContent, TRUE)]
    /\ pc' = "docx"
    /\ UNCHANGED <<err, hadPrior, runVars>>

\* Lines 157-158 raising: open fails, or the write fails after the file
\* was created.
WriteMdFail ==
    /\ pc = "md"
    /\ mi > Len(MdFiles)
    /\ \/ UNCHANGED outdir
       \/ outdir' = [outdir EXCEPT !["functional_doc.md"] =
                        Written([overview |-> NoText, sections |-> <<>>], FALSE)]
    /\ Fail("OSError", "write_md")
    /\ UNCHANGED <<hadPrior, runVars>>

\* Lines 167-175, one file.
AnalyzeDocx ==
    /\ pc = "docx"
    /\ di <= Len(DocxFiles)
    /\ LET fp == DocxFiles[di] IN
       \E content \in ReadFile(fp) :
          IF IsBlank(content)
          THEN /\ di' = di + 1
               /\ UNCHANGED <<pc, err, llmLog, doc>>
          ELSE /\ llmLog' = Append(llmLog, [kind |-> "file", fp |-> fp, pass |-> "docx"])
               /\ \/ /\ \E ans \in replies : doc' = Append(doc, Section(fp, ans))
                     /\ di' = di + 1
                     /\ UNCHANGED <<pc, err>>
                  \/ /\ Fail("GenerationError", "docx")
                     /\ UNCHANGED <<di, doc>>
    /\ UNCHANGED <<outdir, hadPrior, tree, flaky, replies, files, li, loaded, texts, index,
                   embedCalls, retrievals, overview, mi, mdRead, mdSections>>

\* The document, as its parts.
DocxContent == [overview |-> overview, sections |-> doc]

\* Lines 177-180.
SaveDocx ==
    /\ pc = "docx"
    /\ di > Len(DocxFiles)
    /\ outdir' = [outdir EXCEPT !["functional_doc.docx"] = Written(DocxContent, TRUE)]
    /\ pc' = "done"
    /\ UNCHANGED <<err, hadPrior, runVars>>

\* Line 178 raising: nothing, or a truncated file, is left at doc_path.
SaveDocxFail ==
    /\ pc = "docx"
    /\ di > Len(DocxFiles)
    /\ \/ UNCHANGED outdir
       \/ outdir' = [outdir EXCEPT !["functional_doc.docx"] =
                        Written([overview |-> NoText, sections |-> <<>>], FALSE)]
    /\ Fail("OSError", "save_docx")
    /\ UNCHANGED <<hadPrior, runVars>>

Next ==
    \/ StartRun
    \/ ResetOutputDir
    \/ ResetOutputDirFail
    \/ Unzip
    \/ UnzipFail
    \/ Collect
    \/ LoadText
    \/ CheckCorpus
    \/ BuildIndex
    \/ BuildIndexFail
    \/ GenerateOverview
    \/ AnalyzeMd
    \/ WriteMd
    \/ WriteMdFail
    \/ AnalyzeDocx
    \/ SaveDocx
    \/ SaveDocxFail

Spec == Init /\ [][Next]_vars


\* ------------------------------------------------------------ claims
MdFile == outdir["functional_doc.md"]
DocxFile == outdir["functional_doc.docx"]

\* An artifact the current run wrote in full.
WrittenNow(f) == f.present /\ f.fresh /\ f.complete

BothWritten == pc = "done" /\ WrittenNow(MdFile) /\ WrittenNow(DocxFile)

\* The calls of the generative model for file `fp`.
CallsFor(fp) == {k \in 1..Len(llmLog) : llmLog[k].kind = "file" /\ llmLog[k].fp = fp}

CallsIn(pass) == {k \in 1..Len(llmLog) : llmLog[k].pass = pass}

BaseNames(sections) == [k \in 1..Len(sections) |-> sections[k].base]

Paths(sections) == [k \in 1..Len(sections) |-> sections[k].fp]

\* The position of path `fp` in the discovery order.
DiscoveryPos(fp) == CHOOSE k \in 1..Len(files) : files[k] = fp

\* C1: every per-file note of the docx is the note the markdown holds for
\* that file, and the generative model is called at most once per file in
\* a run.
C1_SameNotesOneCallPerFile ==
    /\ \A fp \in 1..Len(tree) : Cardinality(CallsFor(fp)) <= 1
    /\ BothWritten =>
          \A j \in 1..Len(DocxFile.content.sections) :
             \E k \in 1..Len(MdFile.content.sections) :
                /\ MdFile.content.sections[k].fp = DocxFile.content.sections[j].fp
                /\ MdFile.content.sections[k].note = DocxFile.content.sections[j].note

\* C2: when a run wrote both artifacts, the base names of the markdown
\* sub-sections are, in order, the level-2 headings of the docx.
C2_SameHeadings ==
    BothWritten =>
       BaseNames(MdFile.content.sections) = BaseNames(DocxFile.content.sections)

\* C3: each render path submits at most 50 files to per-file analysis, and
\* no file at discovery position 51 or later has a sub-section in the
\* markdown or a heading in the docx.
C3_CapHolds ==
    /\ Len(mdRead) <= FileCap
    /\ Cardinality(CallsIn("md")) <= FileCap
    /\ Cardinality(CallsIn("docx")) <= FileCap
    /\ \A k \in 1..Len(mdSections) : DiscoveryPos(mdSections[k].fp) <= FileCap
    /\ \A k \in 1..Len(doc) : DiscoveryPos(doc[k].fp) <= FileCap
    /\ \A name \in Names :
          WrittenNow(outdir[name]) =>
             \A k \in 1..Len(outdir[name].content.sections) :
                DiscoveryPos(outdir[name].content.sections[k].fp) <= FileCap

\* C3's case: a finished run over more than 50 discovered files, all of the
\* first 50 analysed in both paths.
C3_Witness ==
    /\ BothWritten
    /\ Len(files) > FileCap
    /\ Len(MdFile.content.sections) = FileCap
    /\ Len(DocxFile.content.sections) = FileCap

\* C4: a run that ends in an archive or storage error leaves neither
\* artifact in the output directory.
C4_NoPartialOutput ==
    (pc = "failed" /\ err.type \in {"BadZipFile", "OSError"}) =>
       (~MdFile.present /\ ~DocxFile.present)

AllLoadedEmpty == \A k \in 1..Len(loaded) : loaded[k] = <<>>

AllLoadedBlank == \A k \in 1..Len(loaded) : Strip(loaded[k]) = <<>>

PassedCheck == pc \in {"index", "overview", "md", "docx", "done"}

\* C5, as stated: the empty-corpus error is raised if and only if every
\* loaded text is the empty string.
C5_RaisedIffAllEmpty ==
    /\ err.type = "ValueError" => AllLoadedEmpty
    /\ PassedCheck => ~AllLoadedEmpty

\* C5, amended: the empty-corpus error is raised if and only if every
\* loaded text is blank, that is empty or made only of whitespace.
C5_RaisedIffAllBlank ==
    /\ err.type = "ValueError" => AllLoadedBlank
    /\ PassedCheck => ~AllLoadedBlank

\* C5's case: the error raised over a corpus that holds a non-empty text.
C5_Witness ==
    /\ err.type = "ValueError"
    /\ \E k \in 1..Len(loaded) : loaded[k] # <<>>

Extracted == pc \notin {"idle", "reset", "unzip"} /\ ~(pc = "failed" /\ err.at \in {"reset", "unzip"})

NoRecognizedFile == \A i \in 1..Len(tree) : tree[i].ext \notin CodeExts

AfterReset == pc \notin {"idle", "reset"} /\ ~(pc = "failed" /\ err.at = "reset")

\* C7: after a run's reset step every file in the output directory was
\* written by that run.
C7_NoStaleFiles ==
    AfterReset => \A name \in Names : outdir[name].present => outdir[name].fresh

\* C7's case: the directory held artifacts when the run began, and the run
\* has since written its own.
C7_Witness ==
    /\ AfterReset
    /\ hadPrior
    /\ BothWritten

\* C8: every text the index is built from is non-empty.
C8_IndexTextsNonEmpty == \A k \in 1..Len(index) : index[k] # <<>>

\* C9: the overview call is the first call of the generative model and the
\* only one of its kind, it follows exactly one retrieval, and no call of
\* the generative model is issued once an artifact has been written.
C9_CallsBeforeWrites ==
    /\ [](llmLog # <<>> =>
            /\ retrievals = 1
            /\ \A k \in 1..Len(llmLog) : (llmLog[k].kind = "overview") <=> (k = 1))
    /\ [][Len(llmLog') > Len(llmLog) => \A name \in Names : ~outdir[name].present]_vars

RECURSIVE NonBlankFrom(_, _, _)
NonBlankFrom(paths, reads, k) ==
    IF k > Len(paths) THEN <<>>
    ELSE IF Strip(reads[k]) # <<>>
         THEN <<paths[k]>> \o NonBlankFrom(paths, reads, k + 1)
         ELSE NonBlankFrom(paths, reads, k + 1)

\* C10: the markdown's sub-sections are exactly the files among the first
\* 50 discovered whose loaded content is not blank, once each and in
\* discovery order, under their base names; each of them cost one call of
\* the generative model and the skipped files none.
C10_SectionsAreNonBlankOfFirstCap ==
    WrittenNow(MdFile) =>
       LET sections == MdFile.content.sections
           firstCap == SubSeq(files, 1, Min(Len(files), FileCap))
       IN  /\ Len(mdRead) = Len(firstCap)
           /\ Paths(sections) = NonBlankFrom(firstCap, mdRead, 1)
           /\ \A k \in 1..Len(sections) :
                 sections[k].base =
                    [stem |-> tree[sections[k].fp].stem, ext |-> tree[sections[k].fp].ext]
           /\ Cardinality(CallsIn("md")) = Len(sections)

\* C10's case: a successful run over more than 50 non-blank files with a
\* blank file among the first 50, so that fewer than 50 are analysed.
C10_Witness ==
    /\ BothWritten
    /\ Cardinality({k \in 1..Len(files) : Strip(tree[files[k]].content) # <<>>}) > FileCap
    /\ \E k \in 1..FileCap : Strip(mdRead[k]) = <<>>
    /\ Len(MdFile.content.sections) < FileCap

====
